---- MODULE Spec2Model ----
(***************************************************************************)
(* Model of the v48 PO extraction core of stream.py: the text normalizer   *)
(* norm_advanced and the ordered rule engine advanced_po_extraction_v48.   *)
(*                                                                         *)
(* A text is a sequence of characters.  A character is a one-element       *)
(* string for printable ASCII and the string "U+XXXX" for any other code   *)
(* point.  The Unicode properties the code relies on (general category,    *)
(* NFKC mapping, \d, \w, \s, str.strip whitespace) are tabulated below for *)
(* the characters the model uses.                                          *)
(***************************************************************************)
EXTENDS Integers, Sequences, FiniteSets, TLC

(***************************************************************************)
(* Characters                                                              *)
(***************************************************************************)
NBSP == "U+00A0"
TATWEEL == "U+0640"
FATHATAN == "U+064B"
LRM == "U+200E"
RLM == "U+200F"
LRE == "U+202A"
RLE == "U+202B"
PDF == "U+202C"
LRO == "U+202D"
RLO == "U+202E"
EN_DASH == "U+2013"
EM_DASH == "U+2014"
FW_COLON == "U+FF1A"
FW_LPAREN == "U+FF08"
FW_DIGIT_7 == "U+FF17"
DEVA_DIGIT_4 == "U+096A"
HANGUL_L == "U+1100"
HANGUL_V == "U+1161"
HANGUL_LV == "U+AC00"
\* Arabic letters used by the rule patterns
ALEF == "U+0627"
BEH == "U+0628"
TEH_MARBUTA == "U+0629"
TEH == "U+062A"
JEEM == "U+062C"
DAL == "U+062F"
THAL == "U+0630"
GHAIN == "U+063A"
KAF == "U+0643"
HEH == "U+0647"
WAW == "U+0648"
YEH == "U+064A"
YEH_HAMZA == "U+0626"

AsciiDigitSeq == <<"0", "1", "2", "3", "4", "5", "6", "7", "8", "9">>
ArabicIndicSeq == <<"U+0660", "U+0661", "U+0662", "U+0663", "U+0664",
                    "U+0665", "U+0666", "U+0667", "U+0668", "U+0669">>
ExtArabicIndicSeq == <<"U+06F0", "U+06F1", "U+06F2", "U+06F3", "U+06F4",
                       "U+06F5", "U+06F6", "U+06F7", "U+06F8", "U+06F9">>
LowerSeq == <<"a", "b", "c", "d", "e", "f", "g", "h", "i", "j", "k", "l", "m",
              "n", "o", "p", "q", "r", "s", "t", "u", "v", "w", "x", "y", "z">>
UpperSeq == <<"A", "B", "C", "D", "E", "F", "G", "H", "I", "J", "K", "L", "M",
              "N", "O", "P", "Q", "R", "S", "T", "U", "V", "W", "X", "Y", "Z">>

Range(f) == {f[i] : i \in DOMAIN f}
IndexOf(q, c) == CHOOSE i \in DOMAIN q : q[i] = c

AsciiDigits == Range(AsciiDigitSeq)
ArabicIndicDigits == Range(ArabicIndicSeq)
ExtArabicIndicDigits == Range(ExtArabicIndicSeq)
AsciiLetters == Range(LowerSeq) \cup Range(UpperSeq)
ArabicLetters == {ALEF, BEH, TEH_MARBUTA, TEH, JEEM, DAL, THAL, GHAIN, KAF,
                  HEH, WAW, YEH, YEH_HAMZA}

\* unicodedata.category(ch) == "Nd"
CategoryNd == AsciiDigits \cup ArabicIndicDigits \cup ExtArabicIndicDigits
                \cup {FW_DIGIT_7, DEVA_DIGIT_4}
\* unicodedata.category(ch) == "Mn"
CategoryMn == {FATHATAN}
\* characters str.strip() removes and the regex class \s matches
Whitespace == {" ", "\t", "\n", "\r", NBSP}
\* the regex class \w: alphanumerics and the underscore
WordChars == AsciiLetters \cup ArabicLetters \cup CategoryNd
               \cup {"_", TATWEEL, HANGUL_L, HANGUL_V, HANGUL_LV}

(***************************************************************************)
(* Sequence helpers                                                        *)
(***************************************************************************)
RECURSIVE Flatten(_)
Flatten(ss) == IF ss = <<>> THEN <<>> ELSE Head(ss) \o Flatten(Tail(ss))

\* str.replace(old, new) for a one-character old; new is a text
Replace(s, old, new) ==
    Flatten([i \in 1..Len(s) |-> IF s[i] = old THEN new ELSE <<s[i]>>])

(***************************************************************************)
(* Text Normalizer                                                         *)
(***************************************************************************)
\* compatibility / canonical decomposition of one character
Decompose(c) ==
    CASE c = NBSP -> <<" ">>
      [] c = FW_COLON -> <<":">>
      [] c = FW_LPAREN -> <<"(">>
      [] c = FW_DIGIT_7 -> <<"7">>
      [] c = HANGUL_LV -> <<HANGUL_L, HANGUL_V>>
      [] OTHER -> <<c>>

\* canonical composition: a starter and the character right after it
\* (a non-adjacent character of combining class 0 is blocked)
RECURSIVE ComposeFrom(_, _)
ComposeFrom(s, i) ==
    IF i > Len(s) THEN <<>>
    ELSE IF i < Len(s) /\ s[i] = HANGUL_L /\ s[i + 1] = HANGUL_V
         THEN <<HANGUL_LV>> \o ComposeFrom(s, i + 2)
         ELSE <<s[i]>> \o ComposeFrom(s, i + 1)

NFKC(s) == ComposeFrom(Flatten([i \in 1..Len(s) |-> Decompose(s[i])]), 1)

strip_combining(s) == LET NotMn(ch) == ch \notin CategoryMn IN SelectSeq(s, NotMn)

\* the translation table: both digit rows map onto "0123456789"
ARABIC_DIGITS(c) ==
    IF c \in ArabicIndicDigits THEN AsciiDigitSeq[IndexOf(ArabicIndicSeq, c)]
    ELSE IF c \in ExtArabicIndicDigits
         THEN AsciiDigitSeq[IndexOf(ExtArabicIndicSeq, c)]
         ELSE c

Translate(s) == [i \in 1..Len(s) |-> ARABIC_DIGITS(s[i])]

BIDI_MARKS == <<LRM, RLM, LRE, RLE, PDF, LRO, RLO>>

RemoveBidi(s) == LET NotBidi(ch) == ch \notin Range(BIDI_MARKS) IN SelectSeq(s, NotBidi)

FoldPunctuation(s) ==
    LET s1 == Replace(s, FW_COLON, <<":">>)
        s2 == Replace(s1, EN_DASH, <<"-">>)
        s3 == Replace(s2, EM_DASH, <<"-">>)
        s4 == Replace(s3, TATWEEL, <<" ">>)
        s5 == Replace(s4, "(", <<" ">>)
        s6 == Replace(s5, ")", <<" ">>)
        s7 == Replace(s6, "[", <<" ">>)
    IN Replace(s7, "]", <<" ">>)

\* re.sub(r"[ \t]+", " ", s)
RECURSIVE CollapseFrom(_, _)
CollapseFrom(s, i) ==
    IF i > Len(s) THEN <<>>
    ELSE IF s[i] \in {" ", "\t"}
         THEN IF i > 1 /\ s[i - 1] \in {" ", "\t"}
              THEN CollapseFrom(s, i + 1)
              ELSE <<" ">> \o CollapseFrom(s, i + 1)
         ELSE <<s[i]>> \o CollapseFrom(s, i + 1)

\* mutant: only spaces are collapsed, as by re.sub(r" +", " ", s)
RECURSIVE CollapseOnlySpacesFrom(_, _)
CollapseOnlySpacesFrom(s, i) ==
    IF i > Len(s) THEN <<>>
    ELSE IF s[i] = " " /\ i > 1 /\ s[i - 1] = " "
         THEN CollapseOnlySpacesFrom(s, i + 1)
         ELSE <<s[i]>> \o CollapseOnlySpacesFrom(s, i + 1)
CollapseSpaces_OnlySpaces(s) == CollapseOnlySpacesFrom(s, 1)

CollapseSpaces(s) == CollapseFrom(s, 1)

\* str.strip()
Strip(s) ==
    LET keep == {i \in 1..Len(s) : s[i] \notin Whitespace}
    IN IF keep = {} THEN <<>>
       ELSE LET lo == CHOOSE i \in keep : \A j \in keep : i <= j
                hi == CHOOSE i \in keep : \A j \in keep : j <= i
            IN SubSeq(s, lo, hi)

norm_advanced(s) ==
    IF s = <<>> THEN <<>>
    ELSE LET s1 == NFKC(s)
             s2 == strip_combining(s1)
             s3 == Replace(s2, NBSP, <<" ">>)
             s4 == Translate(s3)
             s5 == RemoveBidi(s4)
             s6 == FoldPunctuation(s5)
         IN Strip(CollapseSpaces(s6))

(***************************************************************************)
(* Regular expressions (module re): a pattern is a tree, matched by        *)
(* backtracking in the priority order of the re module, so that the first  *)
(* successful path fixes the captured groups.                              *)
(***************************************************************************)
Unbounded == -1

Cls(set) == [t |-> "cls", set |-> set, neg |-> FALSE]
NotCls(set) == [t |-> "cls", set |-> set, neg |-> TRUE]
Lit(c) == Cls({c})
Cat(items) == [t |-> "cat", items |-> items]
Alt(items) == [t |-> "alt", items |-> items]
Rep(r, min, max, greedy) ==
    [t |-> "rep", r |-> r, min |-> min, max |-> max, greedy |-> greedy]
Star(r) == Rep(r, 0, Unbounded, TRUE)
Plus(r) == Rep(r, 1, Unbounded, TRUE)
LazyStar(r) == Rep(r, 0, Unbounded, FALSE)
Opt(r) == Rep(r, 0, 1, TRUE)
Group(n, r) == [t |-> "grp", n |-> n, r |-> r]
WordBoundary == [t |-> "wb"]
EndAnchor == [t |-> "end"]
Str(chars) == Cat([i \in 1..Len(chars) |-> Lit(chars[i])])
AnyChar == NotCls({"\n"})
Digit == Cls(CategoryNd)
Space == Cls(Whitespace)
Digits46 == Rep(Digit, 4, 6, TRUE)

Lower(c) == IF c \in Range(UpperSeq) THEN LowerSeq[IndexOf(UpperSeq, c)] ELSE c
Upper(c) == IF c \in Range(LowerSeq) THEN UpperSeq[IndexOf(LowerSeq, c)] ELSE c

\* does character c belong to the class (with re.IGNORECASE when ic)
InClass(c, r, ic) ==
    ((c \in r.set) \/ (ic /\ (Lower(c) \in r.set \/ Upper(c) \in r.set))) # r.neg

IsWordAt(s, i) == i >= 1 /\ i <= Len(s) /\ s[i] \in WordChars
\* \b at the gap before s[i]
AtWordBoundary(s, i) == IsWordAt(s, i - 1) # IsWordAt(s, i)
\* $ without re.MULTILINE: the end, or just before a final newline
AtEnd(s, i) == i = Len(s) + 1 \/ (i = Len(s) /\ s[i] = "\n")

NoCaps == <<<<>>, <<>>>>
Fail == [ok |-> FALSE, end |-> 0, caps |-> NoCaps]

\* match the nodes of todo, in sequence, from position i
RECURSIVE MatchHere(_, _, _, _, _)
MatchHere(todo, s, i, caps, ic) ==
    IF todo = <<>> THEN [ok |-> TRUE, end |-> i, caps |-> caps]
    ELSE LET r == Head(todo)
             rest == Tail(todo)
         IN CASE r.t = "cls" ->
                   IF i <= Len(s) /\ InClass(s[i], r, ic)
                   THEN MatchHere(rest, s, i + 1, caps, ic)
                   ELSE Fail
              [] r.t = "wb" ->
                   IF AtWordBoundary(s, i) THEN MatchHere(rest, s, i, caps, ic)
                   ELSE Fail
              [] r.t = "end" ->
                   IF AtEnd(s, i) THEN MatchHere(rest, s, i, caps, ic)
                   ELSE Fail
              [] r.t = "cat" -> MatchHere(r.items \o rest, s, i, caps, ic)
              [] r.t = "alt" ->
                   LET first == MatchHere(<<Head(r.items)>> \o rest, s, i, caps, ic)
                   IN IF first.ok THEN first
                      ELSE IF Len(r.items) = 1 THEN Fail
                      ELSE MatchHere(<<Alt(Tail(r.items))>> \o rest, s, i, caps, ic)
              [] r.t = "rep" ->
                   LET less == Rep(r.r, IF r.min > 0 THEN r.min - 1 ELSE 0,
                                   IF r.max = Unbounded THEN Unbounded ELSE r.max - 1,
                                   r.greedy)
                       more == IF r.max = 0 THEN Fail
                               ELSE MatchHere(<<r.r, less>> \o rest, s, i, caps, ic)
                       stop == IF r.min > 0 THEN Fail
                               ELSE MatchHere(rest, s, i, caps, ic)
                   IN IF r.greedy
                      THEN (IF more.ok THEN more ELSE stop)
                      ELSE (IF stop.ok THEN stop ELSE more)
              [] r.t = "grp" ->
                   MatchHere(<<r.r, [t |-> "close", n |-> r.n, start |-> i]>> \o rest,
                             s, i, caps, ic)
              [] r.t = "close" ->
                   MatchHere(rest, s, i, [caps EXCEPT ![r.n] = <<r.start, i>>], ic)

\* pattern.search(s): the match at the leftmost position that has one
RECURSIVE SearchFrom(_, _, _)
SearchFrom(rx, s, i) ==
    IF i > Len(s) + 1 THEN Fail
    ELSE LET m == MatchHere(<<rx.re>>, s, i, NoCaps, rx.ic)
         IN IF m.ok THEN m ELSE SearchFrom(rx, s, i + 1)

Search(rx, s) == SearchFrom(rx, s, 1)

\* match.group(n)
GroupText(s, m, n) == SubSeq(s, m.caps[n][1], m.caps[n][2] - 1)

(***************************************************************************)
(* The v48 rule patterns                                                   *)
(***************************************************************************)
\* \bpo(?:\s*no\.?| reference)?\s*[:#/\-]?\s*(\d{4,6})(?:[^\d\s]*)?(?:\s*[-/]\s*(\d{4,6}))?\b
RX_PO_PREFIX ==
    [ic |-> TRUE,
     re |-> Cat(<<WordBoundary, Str(<<"p", "o">>),
                  Opt(Alt(<<Cat(<<Star(Space), Str(<<"n", "o">>), Opt(Lit("."))>>),
                            Str(<<" ", "r", "e", "f", "e", "r", "e", "n", "c", "e">>)>>)),
                  Star(Space), Opt(Cls({":", "#", "/", "-"})), Star(Space),
                  Group(1, Digits46),
                  Opt(Star(NotCls(CategoryNd \cup Whitespace))),
                  Opt(Cat(<<Star(Space), Cls({"-", "/"}), Star(Space),
                            Group(2, Digits46)>>)),
                  WordBoundary>>)]

\* (?:\bcode\b|<kaf waw dal>)\s*[/:\-]?\s*(?:no\.?|number)?\s*(\d{4,6})
RX_CODE_ANCHOR_LINE ==
    [ic |-> TRUE,
     re |-> Cat(<<Alt(<<Cat(<<WordBoundary, Str(<<"c", "o", "d", "e">>), WordBoundary>>),
                        Str(<<KAF, WAW, DAL>>)>>),
                  Star(Space), Opt(Cls({"/", ":", "-"})), Star(Space),
                  Opt(Alt(<<Cat(<<Str(<<"n", "o">>), Opt(Lit("."))>>),
                            Str(<<"n", "u", "m", "b", "e", "r">>)>>)),
                  Star(Space), Group(1, Digits46)>>)]

\* (?:\b<dal>\.?\s*)(\d{4,6})
RX_ARABIC_D_PREFIX ==
    [ic |-> FALSE,
     re |-> Cat(<<Cat(<<WordBoundary, Lit(DAL), Opt(Lit(".")), Star(Space)>>),
                  Group(1, Digits46)>>)]

\* (\d{4,6})\s*<dal>\.
RX_ARABIC_D_SUFFIX ==
    [ic |-> FALSE,
     re |-> Cat(<<Group(1, Digits46), Star(Space), Lit(DAL), Lit(".")>>)]

\* \bPO\s*/\s*(\d{4,6})\b
RX_PO_SLASH ==
    [ic |-> TRUE,
     re |-> Cat(<<WordBoundary, Str(<<"P", "O">>), Star(Space), Lit("/"), Star(Space),
                  Group(1, Digits46), WordBoundary>>)]

\* mutant: the pattern compiled without re.IGNORECASE
RX_PO_FORWARD_SLASH_CaseSensitive ==
    [ic |-> FALSE,
     re |-> Cat(<<WordBoundary, Str(<<"p", "o">>), Star(Space), Lit("/"), Star(Space),
                  Group(1, Digits46), WordBoundary>>)]

\* \bpo\s*/\s*(\d{4,6})\b
RX_PO_FORWARD_SLASH ==
    [ic |-> TRUE,
     re |-> Cat(<<WordBoundary, Str(<<"p", "o">>), Star(Space), Lit("/"), Star(Space),
                  Group(1, Digits46), WordBoundary>>)]

\* mutant: the pattern compiled without re.IGNORECASE
RX_PO_NUM_COLON_CaseSensitive ==
    [ic |-> FALSE,
     re |-> Cat(<<WordBoundary, Str(<<"P", "O">>), Star(Space), Str(<<"N", "U", "M">>),
                  Star(Space), Lit(":"), Star(Space),
                  Group(1, Digits46), WordBoundary>>)]

\* \bPO\s*NUM\s*:\s*(\d{4,6})\b
RX_PO_NUM_COLON ==
    [ic |-> TRUE,
     re |-> Cat(<<WordBoundary, Str(<<"P", "O">>), Star(Space), Str(<<"N", "U", "M">>),
                  Star(Space), Lit(":"), Star(Space),
                  Group(1, Digits46), WordBoundary>>)]

\* \((?:[^)]*?)(\d{4,6})(?:[^)]*?)\)
RX_PARENTHESES_NUM ==
    [ic |-> FALSE,
     re |-> Cat(<<Lit("("), LazyStar(NotCls({")"})), Group(1, Digits46),
                  LazyStar(NotCls({")"})), Lit(")")>>)]

\* \(.*?(\d{4,6})\s*\)$
RX_PARENTHESES_NUM_END ==
    [ic |-> FALSE,
     re |-> Cat(<<Lit("("), LazyStar(AnyChar), Group(1, Digits46), Star(Space),
                  Lit(")"), EndAnchor>>)]

\* taxpayer\s*name\s*[:#]?\s*(\d{4,6})
RX_TAXPAYER_NAME_NUM ==
    [ic |-> TRUE,
     re |-> Cat(<<Str(<<"t", "a", "x", "p", "a", "y", "e", "r">>), Star(Space),
                  Str(<<"n", "a", "m", "e">>), Star(Space), Opt(Cls({":", "#"})),
                  Star(Space), Group(1, Digits46)>>)]

\* \d{1,2}/\d{1,2}/\d{4}
DatePattern ==
    Cat(<<Rep(Digit, 1, 2, TRUE), Lit("/"), Rep(Digit, 1, 2, TRUE), Lit("/"),
          Rep(Digit, 4, 4, TRUE)>>)

\* \b(\d{4,6})\s+\d{1,2}/\d{1,2}/\d{4}\b
RX_NUM_DATE ==
    [ic |-> FALSE,
     re |-> Cat(<<WordBoundary, Group(1, Digits46), Plus(Space), DatePattern,
                  WordBoundary>>)]

\* mutant: the group captures 5 digits, \b(\d{5})\d{1,2}/\d{1,2}/\d{4}\b
RX_NUM_CONCAT_DATE_FiveDigits ==
    [ic |-> FALSE,
     re |-> Cat(<<WordBoundary, Group(1, Rep(Digit, 5, 5, TRUE)), DatePattern,
                  WordBoundary>>)]

\* \b(\d{6})\d{1,2}/\d{1,2}/\d{4}\b
RX_NUM_CONCAT_DATE ==
    [ic |-> FALSE,
     re |-> Cat(<<WordBoundary, Group(1, Rep(Digit, 6, 6, TRUE)), DatePattern,
                  WordBoundary>>)]

\* \b(\d{6})\s*$
RX_STANDALONE_6DIGIT ==
    [ic |-> FALSE,
     re |-> Cat(<<WordBoundary, Group(1, Rep(Digit, 6, 6, TRUE)), Star(Space),
                  EndAnchor>>)]

\* <waw jeem beh alef teh>\s*<ghain thal alef yeh-hamza yeh>[<heh><teh marbuta>]\s+(?:<dal>\.\s*)?(\d{4,6})
RX_ARABIC_MEALS_NUM ==
    [ic |-> TRUE,
     re |-> Cat(<<Str(<<WAW, JEEM, BEH, ALEF, TEH>>), Star(Space),
                  Str(<<GHAIN, THAL, ALEF, YEH_HAMZA, YEH>>), Cls({HEH, TEH_MARBUTA}),
                  Plus(Space), Opt(Cat(<<Lit(DAL), Lit("."), Star(Space)>>)),
                  Group(1, Digits46)>>)]

(***************************************************************************)
(* PO Extractor                                                            *)
(***************************************************************************)
\* mutant: the standalone 6-digit rule moved to the head of the list
patterns_StandaloneFirst ==
    << <<"standalone-6digit", RX_STANDALONE_6DIGIT>>,
       <<"arabic-meals", RX_ARABIC_MEALS_NUM>>,
       <<"po-num-colon", RX_PO_NUM_COLON>>,
       <<"po-forward-slash", RX_PO_FORWARD_SLASH>>,
       <<"num-concat-date", RX_NUM_CONCAT_DATE>>,
       <<"num-date", RX_NUM_DATE>>,
       <<"po-slash", RX_PO_SLASH>>,
       <<"taxpayer-name-num", RX_TAXPAYER_NAME_NUM>>,
       <<"parentheses-end", RX_PARENTHESES_NUM_END>>,
       <<"parentheses", RX_PARENTHESES_NUM>>,
       <<"po-prefix", RX_PO_PREFIX>>,
       <<"code-anchor", RX_CODE_ANCHOR_LINE>>,
       <<"arabic-d-prefix", RX_ARABIC_D_PREFIX>>,
       <<"arabic-d-suffix", RX_ARABIC_D_SUFFIX>> >>

\* the priority list: (pattern_name, pattern) pairs, highest priority first
patterns ==
    << <<"arabic-meals", RX_ARABIC_MEALS_NUM>>,
       <<"po-num-colon", RX_PO_NUM_COLON>>,
       <<"po-forward-slash", RX_PO_FORWARD_SLASH>>,
       <<"num-concat-date", RX_NUM_CONCAT_DATE>>,
       <<"num-date", RX_NUM_DATE>>,
       <<"standalone-6digit", RX_STANDALONE_6DIGIT>>,
       <<"po-slash", RX_PO_SLASH>>,
       <<"taxpayer-name-num", RX_TAXPAYER_NAME_NUM>>,
       <<"parentheses-end", RX_PARENTHESES_NUM_END>>,
       <<"parentheses", RX_PARENTHESES_NUM>>,
       <<"po-prefix", RX_PO_PREFIX>>,
       <<"code-anchor", RX_CODE_ANCHOR_LINE>>,
       <<"arabic-d-prefix", RX_ARABIC_D_PREFIX>>,
       <<"arabic-d-suffix", RX_ARABIC_D_SUFFIX>> >>

\* the result triple (po_number, source, note); the source is the
\* formatted string "json (" + pattern_name + ")", kept as its three pieces
NoPOFound == [po |-> <<>>, source |-> <<>>, note |-> "no PO found"]
Found(po_number, pattern_name) ==
    [po |-> po_number, source |-> <<"json (", pattern_name, ")">>, note |-> ""]

\* mutant: the loop stops one rule short of the end of the list
RECURSIVE FirstMatch_SkipsLast(_, _, _)
FirstMatch_SkipsLast(rules, k, normalized_text) ==
    IF k >= Len(rules) THEN NoPOFound
    ELSE LET match == Search(rules[k][2], normalized_text)
         IN IF match.ok
            THEN Found(GroupText(normalized_text, match, 1), rules[k][1])
            ELSE FirstMatch_SkipsLast(rules, k + 1, normalized_text)

\* for pattern_name, pattern in patterns: return on the first match
RECURSIVE FirstMatch(_, _, _)
FirstMatch(rules, k, normalized_text) ==
    IF k > Len(rules) THEN NoPOFound
    ELSE LET match == Search(rules[k][2], normalized_text)
         IN IF match.ok
            THEN Found(GroupText(normalized_text, match, 1), rules[k][1])
            ELSE FirstMatch(rules, k + 1, normalized_text)

advanced_po_extraction_v48(text) ==
    IF text = <<>> THEN NoPOFound
    ELSE FirstMatch(patterns, 1, norm_advanced(text))

(***************************************************************************)
(* JSON values (module json).  A value carries its Python type: "s" a str, *)
(* "a" a list, "o" a dict (a function from keys to values), "null" None.   *)
(* A JSON document held in a str is given as the sequence of its tokens;   *)
(* json.loads is a recursive-descent parser over them and raises on a      *)
(* sequence that is not one complete value.                                *)
(***************************************************************************)
JStr(chars) == [t |-> "s", v |-> chars]
JArr(items) == [t |-> "a", v |-> items]
JObj(dict) == [t |-> "o", v |-> dict]
JNull == [t |-> "null", v |-> <<>>]
EmptyDict == [k \in {} |-> JNull]

Tok(k) == [k |-> k, v |-> <<>>]
TStr(chars) == [k |-> "str", v |-> chars]

\* the keys of the invoice records, in the order they are written out
KeyOrder ==
    <<"status", "uuid", "internalId", "typeName", "issuerId", "issuerName",
      "receiverId", "receiverName", "dateTimeIssued", "dateTimeReceived",
      "serviceDeliveryDate", "totalSales", "totalDiscount", "netAmount", "total",
      "document", "documentType", "documentTypeVersion", "taxpayerActivityCode",
      "invoiceLines", "description", "issuer", "receiver", "address", "street",
      "buildingNumber", "regionCity", "governate">>
\* a key is a text of one symbol, the name of the key
KeyText(k) == <<k>>

\* json.dumps(value): the tokens of the value
RECURSIVE Dumps(_)
Dumps(val) ==
    CASE val.t = "s" -> <<TStr(val.v)>>
      [] val.t = "null" -> <<Tok("null")>>
      [] val.t = "a" ->
           <<Tok("[")>>
             \o Flatten([i \in 1..Len(val.v) |->
                           (IF i > 1 THEN <<Tok(",")>> ELSE <<>>) \o Dumps(val.v[i])])
             \o <<Tok("]")>>
      [] val.t = "o" ->
           LET InDict(k) == KeyText(k) \in DOMAIN val.v
               keys == SelectSeq(KeyOrder, InDict)
           IN <<Tok("{")>>
                \o Flatten([i \in 1..Len(keys) |->
                              (IF i > 1 THEN <<Tok(",")>> ELSE <<>>)
                                \o <<TStr(KeyText(keys[i])), Tok(":")>>
                                \o Dumps(val.v[KeyText(keys[i])])])
                \o <<Tok("}")>>

ParseFail == [ok |-> FALSE, val |-> JNull, rest |-> <<>>]
Parsed(val, rest) == [ok |-> TRUE, val |-> val, rest |-> rest]
NextIs(toks, k) == toks # <<>> /\ Head(toks).k = k

\* the decoder: one value from the head of toks
RECURSIVE ParseValue(_)
RECURSIVE ParseItems(_, _)
RECURSIVE ParseMembers(_, _)
ParseValue(toks) ==
    IF toks = <<>> THEN ParseFail
    ELSE CASE Head(toks).k = "str" -> Parsed(JStr(Head(toks).v), Tail(toks))
           [] Head(toks).k = "null" -> Parsed(JNull, Tail(toks))
           [] Head(toks).k = "[" ->
                IF NextIs(Tail(toks), "]") THEN Parsed(JArr(<<>>), Tail(Tail(toks)))
                ELSE ParseItems(Tail(toks), <<>>)
           [] Head(toks).k = "{" ->
                IF NextIs(Tail(toks), "}") THEN Parsed(JObj(EmptyDict), Tail(Tail(toks)))
                ELSE ParseMembers(Tail(toks), EmptyDict)
           [] OTHER -> ParseFail

\* value ("," value)* "]"
ParseItems(toks, items) ==
    LET p == ParseValue(toks)
    IN IF ~p.ok THEN ParseFail
       ELSE IF NextIs(p.rest, ",") THEN ParseItems(Tail(p.rest), Append(items, p.val))
       ELSE IF NextIs(p.rest, "]") THEN Parsed(JArr(Append(items, p.val)), Tail(p.rest))
       ELSE ParseFail

\* string ":" value ("," string ":" value)* "}"; a repeated key keeps the last value
ParseMembers(toks, dict) ==
    IF ~(NextIs(toks, "str") /\ NextIs(Tail(toks), ":"))
    THEN ParseFail
    ELSE LET key == Head(toks).v
             p == ParseValue(Tail(Tail(toks)))
             more == (key :> p.val) @@ dict
         IN IF ~p.ok THEN ParseFail
            ELSE IF NextIs(p.rest, ",") THEN ParseMembers(Tail(p.rest), more)
            ELSE IF NextIs(p.rest, "}") THEN Parsed(JObj(more), Tail(p.rest))
            ELSE ParseFail

\* json.loads(s): ok is FALSE where json.loads raises JSONDecodeError
Loads(toks) ==
    LET p == ParseValue(toks)
    IN IF p.ok /\ p.rest = <<>> THEN [ok |-> TRUE, val |-> p.val]
       ELSE [ok |-> FALSE, val |-> JNull]

(***************************************************************************)
(* Field Collector                                                         *)
(***************************************************************************)
Has(d, k) == KeyText(k) \in DOMAIN d
At(d, k) == d[KeyText(k)]
\* d.get(k, "")
Get(d, k) == IF Has(d, k) THEN At(d, k) ELSE JStr(<<>>)

Raised(e) == [ok |-> FALSE, err |-> e, val |-> <<>>]
Returned(x) == [ok |-> TRUE, err |-> "", val |-> x]

\* mutant: json.loads(x) without the isinstance test, a TypeError for a dict
LoadDocument_AlwaysLoads(x) ==
    IF x.t = "s"
    THEN (IF Loads(x.v).ok THEN Returned(Loads(x.v).val) ELSE Raised("JSONDecodeError"))
    ELSE Raised("TypeError")

\* json.loads(x) if isinstance(x, str) else x
LoadDocument(x) ==
    IF x.t = "s"
    THEN (IF Loads(x.v).ok THEN Returned(Loads(x.v).val) ELSE Raised("JSONDecodeError"))
    ELSE Returned(x)

\* k in x: a key of a dict, an element of a list, a part of a str
In(k, x) ==
    CASE x.t = "o" -> Returned(Has(x.v, k))
      [] x.t = "a" -> Returned(\E i \in 1..Len(x.v) : x.v[i] = JStr(KeyText(k)))
      [] x.t = "s" -> Returned(k \in Range(x.v))
      [] OTHER -> Raised("TypeError")

\* x[k] for a str key k
Subscript(x, k) ==
    IF x.t # "o" THEN Raised("TypeError")
    ELSE IF Has(x.v, k) THEN Returned(At(x.v, k)) ELSE Raised("KeyError")

\* the values a for loop over x runs through
Iterate(x) ==
    CASE x.t = "a" -> Returned(x.v)
      [] x.t = "s" -> Returned([i \in 1..Len(x.v) |-> JStr(<<x.v[i]>>)])
      [] x.t = "o" ->
           LET InDict(k) == Has(x.v, k)
               keys == SelectSeq(KeyOrder, InDict)
           IN Returned([i \in 1..Len(keys) |-> JStr(KeyText(keys[i]))])
      [] OTHER -> Raised("TypeError")

\* for line in lines: if 'description' in line: append(line['description'])
RECURSIVE CollectFrom(_, _, _)
CollectFrom(lines, i, acc) ==
    IF i > Len(lines) THEN Returned(acc)
    ELSE LET has == In("description", lines[i])
         IN IF ~has.ok THEN Raised(has.err)
            ELSE IF ~has.val THEN CollectFrom(lines, i + 1, acc)
            ELSE LET d == Subscript(lines[i], "description")
                 IN IF ~d.ok THEN Raised(d.err)
                    ELSE CollectFrom(lines, i + 1, Append(acc, d.val))

\* if 'invoiceLines' in doc: the descriptions of its lines, in order
CollectDescriptions(doc) ==
    LET has == In("invoiceLines", doc)
    IN IF ~has.ok THEN Raised(has.err)
       ELSE IF ~has.val THEN Returned(<<>>)
       ELSE LET lines == Subscript(doc, "invoiceLines")
            IN IF ~lines.ok THEN Raised(lines.err)
               ELSE IF ~Iterate(lines.val).ok THEN Raised(Iterate(lines.val).err)
               ELSE CollectFrom(Iterate(lines.val).val, 1, <<>>)

\* f"{x}"
Format(x) ==
    CASE x.t = "s" -> x.v
      [] x.t = "null" -> <<"N", "o", "n", "e">>
      [] OTHER -> <<"<repr>">>

\* sep.join(parts): every part has to be a str
RECURSIVE JoinFrom(_, _, _)
JoinFrom(parts, i, sep) ==
    IF i > Len(parts) THEN <<>>
    ELSE (IF i > 1 THEN sep ELSE <<>>) \o parts[i].v \o JoinFrom(parts, i + 1, sep)
Join(sep, parts) ==
    IF \E i \in 1..Len(parts) : parts[i].t # "s" THEN Raised("TypeError")
    ELSE Returned(JoinFrom(parts, 1, sep))

InternalIdLabel == <<"I", "n", "t", "e", "r", "n", "a", "l", " ", "I", "D", ":", " ">>

\* the text parts of a record, in the order they are appended
TextParts(json_data) ==
    LET doc == IF Has(json_data, "document")
               THEN LoadDocument(At(json_data, "document"))
               ELSE Returned(JObj(EmptyDict))
        descriptions == IF doc.ok THEN CollectDescriptions(doc.val) ELSE Raised(doc.err)
    IN IF ~descriptions.ok THEN Raised(descriptions.err)
       ELSE Returned(
              descriptions.val
                \o (IF Has(json_data, "issuerName")
                    THEN <<At(json_data, "issuerName")>> ELSE <<>>)
                \o (IF Has(json_data, "receiverName")
                    THEN <<At(json_data, "receiverName")>> ELSE <<>>)
                \o (IF Has(json_data, "internalId")
                    THEN <<JStr(InternalIdLabel \o Format(At(json_data, "internalId")))>>
                    ELSE <<>>))

\* full_text = "\n".join(text_parts)
FullText(json_data) ==
    LET parts == TextParts(json_data)
    IN IF ~parts.ok THEN Raised(parts.err) ELSE Join(<<"\n">>, parts.val)

\* except Exception as e: return "", "", f"extraction error: {str(e)}"
\* (the message of the exception is kept as the name of its class)
ExtractionError(e) ==
    [po |-> <<>>, source |-> <<>>,
     note |-> CASE e = "JSONDecodeError" -> "extraction error: JSONDecodeError"
                [] e = "TypeError" -> "extraction error: TypeError"
                [] OTHER -> "extraction error: KeyError"]

extract_po_from_json(json_data) ==
    LET full_text == FullText(json_data)
    IN IF full_text.ok THEN advanced_po_extraction_v48(full_text.val)
       ELSE ExtractionError(full_text.err)

\* the output key and the record key it is read from
BasicFields ==
    <<<<"STATUS", "status">>, <<"uuid", "uuid">>, <<"internalId", "internalId">>,
      <<"typeName", "typeName">>, <<"issuerId", "issuerId">>,
      <<"issuerName", "issuerName">>, <<"receiverId", "receiverId">>,
      <<"receiverName", "receiverName">>, <<"dateTimeIssued", "dateTimeIssued">>,
      <<"dateTimeReceived", "dateTimeReceived">>,
      <<"serviceDeliveryDate", "serviceDeliveryDate">>,
      <<"totalSales", "totalSales">>, <<"totalDiscount", "totalDiscount">>,
      <<"netAmount", "netAmount">>, <<"total", "total">>>>

TopLevelFields(json_data) ==
    ("filename" :> JStr(<<"JSON_DATA">>))
      @@ [k \in {BasicFields[i][1] : i \in DOMAIN BasicFields} |->
            Get(json_data, BasicFields[CHOOSE i \in DOMAIN BasicFields :
                                          BasicFields[i][1] = k][2])]

NoFields == [k \in {} |-> JNull]

\* f"{addr.get('street', '')} {addr.get('buildingNumber', '')} ..."
FormatAddress(addr) ==
    Format(Get(addr, "street")) \o <<" ">> \o Format(Get(addr, "buildingNumber"))
      \o <<" ">> \o Format(Get(addr, "regionCity"))
      \o <<" ">> \o Format(Get(addr, "governate"))

\* if party in doc and 'address' in doc[party]: fields[key] = ...
\* a step takes and gives [ok, fields]; an exception ends the steps
AddressStep(st, doc, party, key) ==
    IF ~st.ok \/ ~Has(doc.v, party) THEN st
    ELSE LET has == In("address", At(doc.v, party))
         IN IF ~has.ok THEN [st EXCEPT !.ok = FALSE]
            ELSE IF ~has.val THEN st
            ELSE LET addr == Subscript(At(doc.v, party), "address")
                 IN IF ~addr.ok \/ addr.val.t # "o" THEN [st EXCEPT !.ok = FALSE]
                    ELSE [st EXCEPT !.fields =
                            (key :> JStr(FormatAddress(addr.val.v))) @@ @]

\* the fields taken from the document, up to the first exception
DocumentFields(json_data) ==
    IF ~Has(json_data, "document") THEN NoFields
    ELSE LET doc == LoadDocument(At(json_data, "document"))
         IN IF ~doc.ok \/ doc.val.t # "o" THEN NoFields
            ELSE LET typed ==
                       [k \in {"documentType", "documentTypeVersion",
                               "taxpayerActivityCode"} |-> Get(doc.val.v, k)]
                     descriptions == CollectDescriptions(doc.val)
                     joined == IF descriptions.ok
                               THEN Join(<<";", " ">>, descriptions.val)
                               ELSE Raised(descriptions.err)
                     s1 == IF joined.ok
                           THEN [ok |-> TRUE,
                                 fields |-> ("descriptions" :> JStr(joined.val)) @@ typed]
                           ELSE [ok |-> FALSE, fields |-> typed]
                     s2 == AddressStep(s1, doc.val, "issuer", "issuer_address")
                     s3 == AddressStep(s2, doc.val, "receiver", "receiver_address")
                 IN s3.fields

\* fields["PO number"], fields["PO source"], fields["PO note"] = the triple
WithPO(fields, po) ==
    ("PO number" :> JStr(po.po)) @@ ("PO source" :> JStr(po.source))
      @@ ("PO note" :> JStr(po.note)) @@ fields

parse_json_fields(json_data) ==
    WithPO(DocumentFields(json_data) @@ TopLevelFields(json_data),
           extract_po_from_json(json_data))

(***************************************************************************)
(* Input texts                                                             *)
(***************************************************************************)
MaxParts == 2
MaxNormLen == 2
MaxMarkLen == 4
MaxOffset == 2

\* PO NUM: 7906
T_PoNumColon ==
    <<"P", "O", " ", "N", "U", "M", ":", " ", "7", "9", "0", "6">>

\* PO NUM 7906
T_PoNumNoColon ==
    <<"P", "O", " ", "N", "U", "M", " ", "7", "9", "0", "6">>

\* , 173128
T_Trailing6 ==
    <<",", " ", "1", "7", "3", "1", "2", "8">>

\* PO 1234
T_PoSpace4 ==
    <<"P", "O", " ", "1", "2", "3", "4">>

\* po/172237
T_PoSlash ==
    <<"p", "o", "/", "1", "7", "2", "2", "3", "7">>

\* PO 1234-5678
T_PoRange ==
    <<"P", "O", " ", "1", "2", "3", "4", "-", "5", "6", "7", "8">>

\* PO 123
T_Po3 ==
    <<"P", "O", " ", "1", "2", "3">>

\* PO#1234567
T_Po7 ==
    <<"P", "O", "#", "1", "2", "3", "4", "5", "6", "7">>

\* po \u096a\u096a\u096a\u096a
T_PoDeva ==
    <<"p", "o", " ", DEVA_DIGIT_4, DEVA_DIGIT_4, DEVA_DIGIT_4, DEVA_DIGIT_4>>

\* PO: \u0661\u0662\u0663\u0664\u06f5
T_PoArabicIndic ==
    <<"P", "O", ":", " ", "U+0661", "U+0662", "U+0663", "U+0664", "U+06F5">>

\* 17418015/8/2025
T_ConcatDate ==
    <<"1", "7", "4", "1", "8", "0", "1", "5", "/", "8", "/", "2", "0", "2",
      "5">>

\* 4321 5/8/2025
T_NumDate ==
    <<"4", "3", "2", "1", " ", "5", "/", "8", "/", "2", "0", "2", "5">>

\* Taxpayer Name: 5555
T_Taxpayer ==
    <<"T", "a", "x", "p", "a", "y", "e", "r", " ", "N", "a", "m", "e", ":",
      " ", "5", "5", "5", "5">>

\* (4444)
T_Paren ==
    <<"(", "4", "4", "4", "4", ")">>

\* code 654321.
T_Code ==
    <<"c", "o", "d", "e", " ", "6", "5", "4", "3", "2", "1", ".">>

\* \u0648\u062c\u0628\u0627\u062a \u063a\u0630\u0627\u0626\u064a\u0629 \u062f. 173417
T_ArabicMeals ==
    <<WAW, JEEM, BEH, ALEF, TEH, " ", GHAIN, THAL, ALEF, YEH_HAMZA, YEH,
      TEH_MARBUTA, " ", DAL, ".", " ", "1", "7", "3", "4", "1", "7">>

\* \u062f.8888
T_ArabicDPrefix ==
    <<DAL, ".", "8", "8", "8", "8">>

\* 9999 \u062f.
T_ArabicDSuffix ==
    <<"9", "9", "9", "9", " ", DAL, ".">>

\*  other content 
T_Words ==
    <<" ", "o", "t", "h", "e", "r", " ", "c", "o", "n", "t", "e", "n", "t",
      " ">>

\* \n
T_Newline ==
    <<"\n">>

Fragments ==
    <<T_PoNumColon,
      T_PoNumNoColon,
      T_Trailing6,
      T_PoSpace4,
      T_PoSlash,
      T_PoRange,
      T_Po3,
      T_Po7,
      T_PoDeva,
      T_PoArabicIndic,
      T_ConcatDate,
      T_NumDate,
      T_Taxpayer,
      T_Paren,
      T_Code,
      T_ArabicMeals,
      T_ArabicDPrefix,
      T_ArabicDSuffix,
      T_Words,
      T_Newline>>

\* texts assembled from at most MaxParts fragments
FragmentTexts ==
    UNION {{Flatten([i \in 1..n |-> Fragments[f[i]]]) :
                f \in [1..n -> DOMAIN Fragments]} : n \in 0..MaxParts}

\* every character the normalizer treats specially, and some it does not
NormChars ==
    {"a", "7", " ", "\t", "\n", NBSP, "U+0663", "U+06F8", DEVA_DIGIT_4,
     FW_DIGIT_7, FATHATAN, LRM, RLO, FW_COLON, EN_DASH, EM_DASH, TATWEEL,
     "(", ")", "[", "]", HANGUL_L, HANGUL_V}
NormTexts == UNION {[1..n -> NormChars] : n \in 0..MaxNormLen}

\* texts in which a removed or replaced character separates the others
MarkChars == {"a", " ", "\t", "\n", LRM, TATWEEL, HANGUL_L, HANGUL_V}
MarkTexts == UNION {[1..n -> MarkChars] : n \in 0..MaxMarkLen}

BaseDigits == <<"1", "7", "4", "1", "8", "0", "1", "5", "9", "2", "6", "3", "5", "8">>
\* the run of len digits of BaseDigits that starts at offset a
DigitRun(a, len) == SubSeq(BaseDigits, a, a + len - 1)
ToArabicIndic(run) == [i \in 1..Len(run) |-> ArabicIndicSeq[IndexOf(AsciiDigitSeq, run[i])]]

\* "PO NUM" in either letter case, with or without the colon, and a number
PoNumLabels ==
    {<<"P", "O", " ", "N", "U", "M">>, <<"p", "o", " ", "n", "u", "m">>,
     <<"P", "o", "N", "u", "m">>}
PoNumSeparators == {<<":", " ">>, <<" ">>, <<" ", ":">>}
PoNumTexts ==
    {label \o sep \o DigitRun(a, len) :
        label \in PoNumLabels, sep \in PoNumSeparators,
        a \in 1..MaxOffset, len \in 3..7}

\* a digit run directly followed by /month/year
DateTails ==
    {<<"/", "8", "/", "2", "0", "2", "5">>, <<"/", "1", "2", "/", "2", "0", "2", "5">>}
ConcatDateTexts ==
    {run \o tail : run \in {DigitRun(a, len) : a \in 1..MaxOffset, len \in 5..9}
                           \cup {ToArabicIndic(DigitRun(a, len)) :
                                    a \in 1..MaxOffset, len \in 7..8},
                   tail \in DateTails}

\* a parenthesized group holding a number, somewhere in a text
ParenLeads == {<<>>, <<"r", "e", "f", " ">>}
ParenInners ==
    {DigitRun(a, len) : a \in 1..MaxOffset, len \in 3..6}
      \cup {<<"n", "o", " ">> \o DigitRun(a, 5) \o <<" ", "x">> : a \in 1..MaxOffset}
ParenTails == {<<>>, <<" ", "e", "n", "d">>}
ParenTexts ==
    {lead \o <<"(">> \o inner \o <<")">> \o tail :
        lead \in ParenLeads, inner \in ParenInners, tail \in ParenTails}

\* PO/172237 other content
T_PoSlashContent ==
    <<"P", "O", "/", "1", "7", "2", "2", "3", "7", " ",
      "o", "t", "h", "e", "r", " ", "c", "o", "n", "t", "e", "n", "t">>

\* "po" in every letter case, "/" with and without spaces, 3 to 7 digits
PoCases ==
    {<<"P", "O">>, <<"p", "o">>, <<"P", "o">>, <<"p", "O">>}

SlashSeparators ==
    {<<"/">>, <<" ", "/", " ">>}

SlashLeads ==
    {<<>>, <<"P", "O", " ", "N", "U", "M", ":", " ", "7", "9", "0", "6", " ">>}

SlashTails ==
    {<<>>, <<" ", "o", "t", "h", "e", "r", " ", "c", "o", "n", "t", "e", "n", "t">>}

SlashTexts ==
    {T_PoSlashContent}
      \cup {lead \o label \o sep \o DigitRun(a, len) \o tail :
               lead \in SlashLeads, label \in PoCases, sep \in SlashSeparators,
               a \in 1..MaxOffset, len \in 3..7, tail \in SlashTails}

Inputs ==
    FragmentTexts \cup NormTexts \cup MarkTexts \cup PoNumTexts
      \cup ConcatDateTexts \cup ParenTexts \cup SlashTexts

(***************************************************************************)
(* Input records                                                           *)
(***************************************************************************)
MaxLines == 2

Entry(k, val) == KeyText(k) :> val

\* an invoice line: without a description, or with an empty one, or with
\* one of two PO-bearing ones
LineChoices ==
    {JObj(EmptyDict), JObj(Entry("description", JStr(<<>>))),
     JObj(Entry("description", JStr(T_PoNumColon))),
     JObj(Entry("description", JStr(T_PoSlash)))}
InvoiceLineSeqs == UNION {[1..n -> LineChoices] : n \in 0..MaxLines}

SomeAddress == JObj(Entry("address", JObj(Entry("street", JStr(<<"1", "2">>)))))
DocumentDetails == Entry("documentType", JStr(<<"I">>)) @@ Entry("issuer", SomeAddress)

\* the parsed documents: no invoiceLines, every sequence of lines, a
\* document with type and issuer address, a line whose description is null
Docs ==
    {JObj(EmptyDict), JObj(DocumentDetails),
     JObj(Entry("invoiceLines", JArr(<<JObj(Entry("description", JStr(T_PoNumColon)))>>))
            @@ DocumentDetails),
     JObj(Entry("invoiceLines", JArr(<<JObj(Entry("description", JNull))>>)))}
      \cup {JObj(Entry("invoiceLines", JArr(ls))) : ls \in InvoiceLineSeqs}

\* str values that json.loads rejects: an empty str, a truncated object,
\* two values in a row, an object without its value
BadDocuments ==
    {JStr(<<>>), JStr(<<Tok("{"), TStr(KeyText("invoiceLines")), Tok(":"), Tok("[")>>),
     JStr(<<TStr(<<"n", "o">>), TStr(<<"j">>)>>),
     JStr(<<Tok("{"), TStr(KeyText("documentType")), Tok("}")>>)}
\* str values that decode to a list, a str and null
NonObjectDocuments ==
    {JStr(<<Tok("["), Tok("]")>>), JStr(<<TStr(<<"x">>)>>), JStr(<<Tok("null")>>)}

DocumentChoices ==
    {EmptyDict}
      \cup {Entry("document", d) : d \in Docs}
      \cup {Entry("document", JStr(Dumps(d))) : d \in Docs}
      \cup {Entry("document", d) : d \in BadDocuments \cup NonObjectDocuments}

\* issuerName, receiverName and internalId: missing, empty or filled
NameChoices ==
    {EmptyDict,
     Entry("issuerName", JStr(<<>>)),
     Entry("issuerName", JStr(T_PoSpace4)) @@ Entry("receiverName", JStr(T_Words)),
     Entry("issuerName", JStr(<<>>)) @@ Entry("receiverName", JStr(T_Words))
       @@ Entry("internalId", JStr(<<"4", "2">>)),
     Entry("internalId", JStr(<<>>)),
     Entry("receiverName", JStr(<<>>)) @@ Entry("internalId", JStr(<<"4", "2">>))}

Records ==
    {Entry("uuid", JStr(<<"u", "1">>)) @@ n @@ d :
        n \in NameChoices, d \in DocumentChoices}

(***************************************************************************)
(* State machine: a text is normalized (and the result normalized once     *)
(* more), or handed to the extractor.                                      *)
(***************************************************************************)
VARIABLES text, pc, normalized, renormalized, result, json_data, fields, full_text

vars == <<text, pc, normalized, renormalized, result, json_data, fields, full_text>>

NoResult == [po |-> <<>>, source |-> <<>>, note |-> "not run"]

Init ==
    /\ text \in Inputs
    /\ pc = "input"
    /\ normalized = <<>>
    /\ renormalized = <<>>
    /\ result = NoResult
    /\ json_data = EmptyDict
    /\ fields = NoFields
    /\ full_text = Returned(<<>>)

\* normalized = norm_advanced(text)
Normalize ==
    /\ pc = "input"
    /\ normalized' = norm_advanced(text)
    /\ pc' = "normalized"
    /\ UNCHANGED <<text, renormalized, result, json_data, fields, full_text>>

\* renormalized = norm_advanced(normalized)
NormalizeAgain ==
    /\ pc = "normalized"
    /\ renormalized' = norm_advanced(normalized)
    /\ pc' = "renormalized"
    /\ UNCHANGED <<text, normalized, result, json_data, fields, full_text>>

\* result = advanced_po_extraction_v48(text)
Extract ==
    /\ pc = "input"
    /\ result' = advanced_po_extraction_v48(text)
    /\ pc' = "extracted"
    /\ UNCHANGED <<text, normalized, renormalized, json_data, fields, full_text>>

Next == Normalize \/ NormalizeAgain \/ Extract

Spec == Init /\ [][Next]_vars

(***************************************************************************)
(* State machine of the field collector: a record is handed to             *)
(* extract_po_from_json or to parse_json_fields.                           *)
(***************************************************************************)
InitJson ==
    /\ json_data \in Records
    /\ pc = "record"
    /\ text = <<>>
    /\ normalized = <<>>
    /\ renormalized = <<>>
    /\ result = NoResult
    /\ fields = NoFields
    /\ full_text = Returned(<<>>)

\* result = extract_po_from_json(json_data); full_text is the text it
\* assembles on the way, or the exception raised before the text is whole
ExtractPoFromJson ==
    /\ pc = "record"
    /\ full_text' = FullText(json_data)
    /\ result' = extract_po_from_json(json_data)
    /\ pc' = "po_extracted"
    /\ UNCHANGED <<text, normalized, renormalized, json_data, fields>>

\* fields = parse_json_fields(json_data); result is the triple that
\* extract_po_from_json returned to it and full_text the text assembled there
ParseJsonFields ==
    /\ pc = "record"
    /\ full_text' = FullText(json_data)
    /\ result' = extract_po_from_json(json_data)
    /\ fields' = WithPO(DocumentFields(json_data) @@ TopLevelFields(json_data), result')
    /\ pc' = "parsed"
    /\ UNCHANGED <<text, normalized, renormalized, json_data>>

NextJson == ExtractPoFromJson \/ ParseJsonFields

SpecJson == InitJson /\ [][NextJson]_vars

TypeOK == pc \in {"input", "normalized", "renormalized", "extracted", "record", "po_extracted", "parsed"}

(***************************************************************************)
(* Properties                                                              *)
(***************************************************************************)
Min(S) == CHOOSE x \in S : \A y \in S : x <= y

\* the priority order of the rule table
RuleOrder ==
    <<"arabic-meals", "po-num-colon", "po-forward-slash", "num-concat-date",
      "num-date", "standalone-6digit", "po-slash", "taxpayer-name-num",
      "parentheses-end", "parentheses", "po-prefix", "code-anchor",
      "arabic-d-prefix", "arabic-d-suffix">>

PatternNamed(name) ==
    patterns[CHOOSE k \in DOMAIN patterns : patterns[k][1] = name][2]

\* does the rule match at position i / anywhere in s
MatchesAt(rx, s, i) == MatchHere(<<rx.re>>, s, i, NoCaps, rx.ic).ok
MatchesIn(name, s) ==
    \E i \in 1..(Len(s) + 1) : MatchesAt(PatternNamed(name), s, i)

\* the first capture group of the leftmost match of the rule in s
LeftmostCapture(name, s) ==
    LET rx == PatternNamed(name)
        first == Min({i \in 1..(Len(s) + 1) : MatchesAt(rx, s, i)})
    IN GroupText(s, MatchHere(<<rx.re>>, s, first, NoCaps, rx.ic), 1)

SourceRule(r) == IF r.source = <<>> THEN "" ELSE r.source[2]

\* C1: for a non-empty text the result is (first capture group of the
\* leftmost match of R, "json (" + R + ")", "") where R is the first rule of
\* the fixed priority order that matches the normalized text; "PO NUM: 7906"
\* with a standalone 6-digit number elsewhere gives "7906" via po-num-colon.
C1_FirstMatchWins ==
    (pc = "extracted" /\ text # <<>>) =>
        LET nt == norm_advanced(text)
            matching == {k \in DOMAIN RuleOrder : MatchesIn(RuleOrder[k], nt)}
        IN /\ matching # {} =>
                result = [po |-> LeftmostCapture(RuleOrder[Min(matching)], nt),
                          source |-> <<"json (", RuleOrder[Min(matching)], ")">>,
                          note |-> ""]
           /\ text = T_PoNumColon \o T_Trailing6 =>
                /\ result.po = <<"7", "9", "0", "6">>
                /\ result.source = <<"json (", "po-num-colon", ")">>

C1_Witness ==
    /\ pc = "extracted"
    /\ text = T_PoNumColon \o T_Trailing6
    /\ MatchesIn("standalone-6digit", norm_advanced(text))
    /\ result.po = <<"7", "9", "0", "6">>

LabelledRules ==
    {"arabic-meals", "po-num-colon", "po-forward-slash", "po-slash",
     "taxpayer-name-num", "po-prefix", "code-anchor", "arabic-d-prefix",
     "arabic-d-suffix"}
GenericRules == {"num-concat-date", "num-date", "standalone-6digit"}

\* C2: when some labelled rule matches the normalized text, the result is
\* never produced by a generic numeric rule (num-concat-date, num-date,
\* standalone-6digit).
C2_LabelledBeforeGeneric ==
    (pc = "extracted"
       /\ \E name \in LabelledRules : MatchesIn(name, norm_advanced(text)))
      => SourceRule(result) \notin GenericRules

\* C3: norm_advanced is idempotent: normalizing a normalized text changes
\* nothing.
C3_Idempotent == pc = "renormalized" => renormalized = normalized

\* the characters the normalizer is to leave none of
BracketChars == {"(", ")", "[", "]"}
RemovedChars ==
    CategoryMn \cup Range(BIDI_MARKS) \cup BracketChars
      \cup {NBSP, FW_COLON, EN_DASH, EM_DASH, TATWEEL}

\* C4: every digit character of the output is an ASCII digit, and
\* the output holds no Mn character, bidi control, non-breaking space,
\* full-width colon, en/em dash, tatweel or bracket.
C4_OnlyAsciiDigits ==
    pc = "normalized" =>
        \A i \in 1..Len(normalized) :
            /\ normalized[i] \in CategoryNd => normalized[i] \in AsciiDigits
            /\ normalized[i] \notin RemovedChars

\* C5: the result is ("", "", "no PO found") exactly when the text is empty
\* or no rule matches the normalized text; otherwise the note is empty and
\* the PO number and the source are not.
C5_NoPOFound ==
    pc = "extracted" =>
        IF text = <<>>
             \/ \A k \in DOMAIN patterns : ~MatchesIn(patterns[k][1], norm_advanced(text))
        THEN result = [po |-> <<>>, source |-> <<>>, note |-> "no PO found"]
        ELSE result.note = "" /\ result.po # <<>> /\ result.source # <<>>

C5_Witness ==
    /\ pc = "extracted"
    /\ text = <<" ", FATHATAN>>
    /\ norm_advanced(text) = <<>>
    /\ result.note = "no PO found"

\* a run of exactly n digits right after "PO" and a separator, ending at a
\* non-digit or the end of the text
DigitRunAfterPO(s, n) ==
    {SubSeq(s, i + 3, i + 2 + n) :
        i \in {j \in 1..(Len(s) - n - 2) :
                 /\ Lower(s[j]) = "p" /\ Lower(s[j + 1]) = "o"
                 /\ s[j + 2] \in {" ", "#", ":", "/"}
                 /\ \A d \in 3..(n + 2) : s[j + d] \in CategoryNd
                 /\ (j + n + 3 <= Len(s) => s[j + n + 3] \notin CategoryNd)}}

\* C6: a returned PO number is the primary capture of the matching rule and
\* is 4 to 6 ASCII digits (exactly 6 for num-concat-date and
\* standalone-6digit); the secondary number of po-prefix is not reported;
\* a run of 3 or of 7 digits after a "PO" label is never the PO number.
C6_DigitLengthGuard ==
    (pc = "extracted" /\ result.po # <<>>) =>
        LET nt == norm_advanced(text)
        IN /\ Len(result.po) \in 4..6
           /\ \A i \in 1..Len(result.po) : result.po[i] \in AsciiDigits
           /\ SourceRule(result) \in {"num-concat-date", "standalone-6digit"}
                => Len(result.po) = 6
           /\ result.po = LeftmostCapture(SourceRule(result), nt)
           /\ text = T_PoRange => result.po = <<"1", "2", "3", "4">>
           /\ result.po \notin DigitRunAfterPO(nt, 3) \cup DigitRunAfterPO(nt, 7)

\* the number inside a parenthesized group of the raw text
ParenthesizedNumber(s) == GroupText(s, Search(RX_PARENTHESES_NUM, s), 1)

\* C7: a text with a parenthesized 4-6 digit number on which none of rules
\* 1-8 matches yields that number, via parentheses-end when the group ends
\* the text and the number is the last token in it, via parentheses
\* otherwise.
C7_ParenthesesRules ==
    (pc = "extracted"
       /\ Search(RX_PARENTHESES_NUM, text).ok
       /\ \A k \in 1..8 : ~MatchesIn(RuleOrder[k], norm_advanced(text)))
      => /\ result.po = ParenthesizedNumber(text)
         /\ SourceRule(result) =
              IF Search(RX_PARENTHESES_NUM_END, text).ok
              THEN "parentheses-end" ELSE "parentheses"

\* C8 as stated: "PO NUM" in any letter case, with or without the colon,
\* then a 4-6 digit number n, yields (n, "json (po-num-colon)", "").
C8_OptionalColon ==
    pc = "extracted" =>
        \A label \in {<<"P", "O", " ", "N", "U", "M">>, <<"p", "o", " ", "n", "u", "m">>},
           sep \in {<<":", " ">>, <<" ">>},
           a \in 1..MaxOffset, len \in 4..6 :
            text = label \o sep \o DigitRun(a, len) =>
                result = [po |-> DigitRun(a, len),
                          source |-> <<"json (", "po-num-colon", ")">>,
                          note |-> ""]

\* C8 as amended: the colon is required.  "PO NUM" in any letter case, a
\* colon with optional whitespace around it, and a 4-6 digit number n yield
\* (n, "json (po-num-colon)", ""); without the colon the result never comes
\* from po-num-colon.
C8_ColonRequired ==
    pc = "extracted" =>
        \A label \in PoNumLabels, sep \in PoNumSeparators,
           a \in 1..MaxOffset, len \in 4..6 :
            text = label \o sep \o DigitRun(a, len) =>
                IF ":" \in Range(sep)
                THEN result = [po |-> DigitRun(a, len),
                               source |-> <<"json (", "po-num-colon", ")">>,
                               note |-> ""]
                ELSE SourceRule(result) # "po-num-colon"

C8_Witness ==
    /\ pc = "extracted"
    /\ text = <<"p", "o", " ", "n", "u", "m", ":", " ">> \o DigitRun(2, 5)
    /\ result.po = DigitRun(2, 5)
    /\ SourceRule(result) = "po-num-colon"

\* C9: a text made of a run of 7 or 8 digits directly followed by
\* /month/year, on which none of rules 1-3 matches, yields the first 6
\* digits of the run via num-concat-date, with an empty note;
\* "17418015/8/2025" gives "174180".
C9_ConcatDate ==
    pc = "extracted" =>
        /\ \A a \in 1..MaxOffset, len \in 7..8, tail \in DateTails :
              (/\ text \in {DigitRun(a, len) \o tail,
                            ToArabicIndic(DigitRun(a, len)) \o tail}
               /\ \A k \in 1..3 : ~MatchesIn(RuleOrder[k], norm_advanced(text)))
                => result = [po |-> DigitRun(a, 6),
                             source |-> <<"json (", "num-concat-date", ")">>,
                             note |-> ""]
        /\ text = T_ConcatDate =>
              /\ result.po = <<"1", "7", "4", "1", "8", "0">>
              /\ SourceRule(result) = "num-concat-date"

C9_Witness ==
    /\ pc = "extracted"
    /\ text = DigitRun(2, 7) \o <<"/", "1", "2", "/", "2", "0", "2", "5">>
    /\ result.po = DigitRun(2, 6)
    /\ SourceRule(result) = "num-concat-date"

\* the characters of a raw text that are still there, as themselves or
\* folded, after the deletions and replacements, and are not white space
Survives(c) ==
    c \notin Whitespace \cup CategoryMn \cup Range(BIDI_MARKS) \cup BracketChars
                \cup {TATWEEL, FW_LPAREN}
\* the line breaks between the first and the last surviving character
InnerLineBreaks(s) ==
    LET kept == {i \in 1..Len(s) : Survives(s[i])}
    IN {i \in 1..Len(s) :
          /\ s[i] = "\n"
          /\ \E j \in kept : j < i
          /\ \E j \in kept : j > i}
LineBreaks(s) == {i \in 1..Len(s) : s[i] = "\n"}

\* C10: the output has no tab, no two consecutive spaces and no leading or
\* trailing white space, and the line breaks inside the text are kept.
C10_WhitespaceCollapsed ==
    pc = "normalized" =>
        /\ \A i \in 1..Len(normalized) : normalized[i] # "\t"
        /\ \A i \in 1..(Len(normalized) - 1) :
              ~(normalized[i] = " " /\ normalized[i + 1] = " ")
        /\ normalized # <<>> =>
              /\ normalized[1] \notin Whitespace
              /\ normalized[Len(normalized)] \notin Whitespace
        /\ Cardinality(LineBreaks(normalized)) = Cardinality(InnerLineBreaks(text))

C10_Witness ==
    /\ pc = "normalized"
    /\ text = <<"a", "\t", TATWEEL, "a">>
    /\ normalized = <<"a", " ", "a">>

(***************************************************************************)
(* Properties of the field collector                                       *)
(***************************************************************************)
IsNonEmptyStr(x) == x.t = "s" /\ x.v # <<>>

\* the parsed document of a record, an empty dict when there is none
DocumentOf(r) ==
    IF Has(r, "document") /\ LoadDocument(At(r, "document")).ok
    THEN LoadDocument(At(r, "document")).val
    ELSE JObj(EmptyDict)

\* the parts the text is to be made of: the non-empty descriptions in array
\* order, issuerName, receiverName, "Internal ID: " + internalId, each
\* only when the field is there and not empty
NonEmptyParts(r) ==
    LET doc == DocumentOf(r)
        lines == IF doc.t = "o" /\ Has(doc.v, "invoiceLines")
                    /\ At(doc.v, "invoiceLines").t = "a"
                 THEN At(doc.v, "invoiceLines").v ELSE <<>>
        Described(line) ==
            line.t = "o" /\ Has(line.v, "description")
              /\ IsNonEmptyStr(At(line.v, "description"))
        described == SelectSeq(lines, Described)
        Field(k) == IF Has(r, k) /\ IsNonEmptyStr(At(r, k)) THEN <<At(r, k)>> ELSE <<>>
    IN [i \in 1..Len(described) |-> At(described[i].v, "description")]
         \o Field("issuerName") \o Field("receiverName")
         \o (IF Has(r, "internalId") /\ IsNonEmptyStr(At(r, "internalId"))
             THEN <<JStr(InternalIdLabel \o At(r, "internalId").v)>> ELSE <<>>)

\* the lines of a text: the texts between its line breaks
RECURSIVE LinesOf(_)
LinesOf(s) ==
    IF \A i \in 1..Len(s) : s[i] # "\n" THEN <<s>>
    ELSE LET br == Min({i \in 1..Len(s) : s[i] = "\n"})
         IN <<SubSeq(s, 1, br - 1)>> \o LinesOf(SubSeq(s, br + 1, Len(s)))

\* C11: the text handed to the extractor is the newline-joined sequence of
\* the descriptions in array order, issuerName, receiverName and
\* "Internal ID: " + internalId, where a missing or empty field gives no
\* part: the text has no blank line and no bare "Internal ID: " label.
C11_AssembledText ==
    (pc = "po_extracted" /\ full_text.ok) =>
        /\ full_text.val = JoinFrom(NonEmptyParts(json_data), 1, <<"\n">>)
        /\ full_text.val # <<>> =>
              \A i \in DOMAIN LinesOf(full_text.val) :
                  LinesOf(full_text.val)[i] \notin {<<>>, InternalIdLabel}

WithoutDocument(r) == [k \in DOMAIN r \ {KeyText("document")} |-> r[k]]

DocumentKeys ==
    {"documentType", "documentTypeVersion", "taxpayerActivityCode", "descriptions",
     "issuer_address", "receiver_address"}

\* C12: for a record whose document is a str that is not valid JSON, or
\* does not decode to an object, parse_json_fields returns the top-level
\* fields with their values, no document-derived key, and as PO number,
\* source and note the result of the extractor on the text of the other
\* fields.
C12_BadDocumentDegrades ==
    (pc = "parsed" /\ Has(json_data, "document")
       /\ At(json_data, "document").t = "s"
       /\ (~Loads(At(json_data, "document").v).ok
             \/ Loads(At(json_data, "document").v).val.t # "o")) =>
        LET po == advanced_po_extraction_v48(FullText(WithoutDocument(json_data)).val)
        IN /\ "error" \notin DOMAIN fields
           /\ \A i \in DOMAIN BasicFields :
                 fields[BasicFields[i][1]] = Get(json_data, BasicFields[i][2])
           /\ DOMAIN fields \cap DocumentKeys = {}
           /\ fields["PO number"].v = po.po
           /\ fields["PO source"].v = po.source
           /\ fields["PO note"].v = po.note

\* C13: a record whose document is the JSON text of an object gives the
\* same mapping as the record that carries the parsed object instead.
C13_StringLikeParsed ==
    (pc = "parsed" /\ Has(json_data, "document")
       /\ At(json_data, "document").t = "s"
       /\ Loads(At(json_data, "document").v).ok
       /\ Loads(At(json_data, "document").v).val.t = "o") =>
        fields = parse_json_fields(
                   Entry("document", Loads(At(json_data, "document").v).val)
                     @@ json_data)

C13_Witness ==
    /\ pc = "parsed"
    /\ Has(json_data, "document")
    /\ At(json_data, "document") =
         JStr(Dumps(JObj(Entry("invoiceLines",
                               JArr(<<JObj(Entry("description", JStr(T_PoNumColon)))>>)))))
    /\ fields["descriptions"].v = T_PoNumColon
    /\ fields["PO number"].v = <<"7", "9", "0", "6">>

(***************************************************************************)
(* Properties of the two slash rules                                       *)
(***************************************************************************)
EarlierRuleMatches(s) ==
    MatchesIn("arabic-meals", s) \/ MatchesIn("po-num-colon", s)

\* C14: rule po-slash is unreachable.  Its pattern matches at exactly the
\* positions where the pattern of po-forward-slash matches, in any letter
\* case of "PO", so the extractor never returns the source po-slash; a
\* text po-slash matches is reported as po-forward-slash unless rule 1 or
\* 2 matches first, as "PO/172237 other content" is.
C14_PoSlashUnreachable ==
    pc = "extracted" =>
      LET s == norm_advanced(text) IN
        /\ SourceRule(result) # "po-slash"
        /\ \A i \in 1..(Len(s) + 1) :
              MatchesAt(RX_PO_SLASH, s, i)
                = MatchesAt(RX_PO_FORWARD_SLASH, s, i)
        /\ (MatchesIn("po-slash", s) /\ ~EarlierRuleMatches(s)) =>
              /\ SourceRule(result) = "po-forward-slash"
              /\ result.po = LeftmostCapture("po-slash", s)
        /\ text = T_PoSlashContent =>
              /\ SourceRule(result) = "po-forward-slash"
              /\ result.po = <<"1", "7", "2", "2", "3", "7">>

C14_Witness ==
    /\ pc = "extracted"
    /\ text = T_PoSlashContent
    /\ MatchesIn("po-slash", norm_advanced(text))
    /\ result.source = <<"json (", "po-forward-slash", ")">>
    /\ result.po = <<"1", "7", "2", "2", "3", "7">>

====
